---- MODULE Spec2Model ----
(***************************************************************************)
(* Model of agentopy: the prefix-addressed State container (state.py), the *)
(* Action.call scope cascade (action.py), the ActionSpace                  *)
(* (action_space.py), Environment.observe and the tick tasks of            *)
(* Environment.start (environment.py), and the Agent heartbeat state       *)
(* machine (agent.py).  Each part has its own specification; the variables *)
(* of the other parts stay at their initial values.                        *)
(*                                                                         *)
(* A key is a Python str, modelled as the sequence of its characters, so   *)
(* that startswith, slicing and lstrip act on characters as they do in the *)
(* source.  A dict is insertion ordered: it is modelled as a sequence of   *)
(* records [k |-> key, v |-> value] with pairwise different keys.          *)
(***************************************************************************)
EXTENDS Integers, Sequences, FiniteSets, TLC

VARIABLES
    s,          \* State._data of the State under test (ordered dict)
    max_keys,   \* State._max_keys of the State under test
    last,       \* the last State operation: name, arguments, state before, outcome
    written,    \* history: key -> value of the last merge/set_item that wrote it
    caller_context,  \* Action.call: the State given as caller_context (its _data)
    context,    \* Action.call: the State handed to the wrapped function
    acall,      \* Action.call: "ready" before the call, "returned" after it
    astate,     \* Agent.state: the agent's State (its _data), holding agent/mode
    heartrate_ms,    \* Agent._heartreate_ms
    env_names,  \* the names of the environment's components, in list order
    pc,         \* position of the start() task: "new" before start(), "sleep",
                \* "gather", "observe", "think", "act" (the await it is suspended
                \* at) or "dead"
    cb,         \* per agent component: its on_heartbeat callback of this heartbeat
    now,        \* the event loop's time()
    idle_start_time, \* Agent._idle_start_time
    entries,    \* history: mode and recorded action at the entry of each of the
                \* last heartbeats
    phases,     \* history: the phases the current heartbeat has started, in order
    observed,   \* history: the list the last environment.observe returned
    agent_tasks, \* the tasks Agent.start created
    running,    \* history: the heartbeat() calls begun and not yet ended
    called,     \* history: the last action.call made by act(), its arguments
    raised,     \* history: what ended the start() task: "none", "callback",
                \* "observe", "think", "act" (the collaborator that raised) or
                \* "internal" (an exception of the agent's own statements)
    phase_pre,  \* history: the agent's State when the awaited phase began
    decided,    \* history: the last return of policy.action
    components, \* Environment._components: the names of the components, in list order
    env_caller_context, \* Environment.observe: the State given as caller_context
    epc,        \* Environment.observe: 0 before the call, i while component i's
                \* observe is awaited, Len(components) + 1 returned, -1 raised
    contexts,   \* Environment.observe: the contexts handed to the components so far
    states,     \* Environment.observe: the list states
    eresult,    \* Environment.observe: the list returned
    completions, \* history: the component observe calls that completed, in order
    sync,       \* Environment.start: its argument sync
    tasks,      \* Environment.start: the tasks created (0: start_all_components,
                \* i >= 1: start_component of the i-th component)
    tpc,        \* per task: -2 not created, 0 created and not yet run, i while
                \* the tick of component i is awaited, Len(components) + 1 while
                \* sleep(0) is awaited, -1 ended by an exception
    tstarted,   \* history: per component, the tick calls started
    tdone,      \* history: per component, the tick calls completed
    actions,    \* ActionSpace._actions (ordered dict: name -> action)
    registered, \* history: every action given to register_actions, in order
    got,        \* the outcome of the last get_action
    t,          \* a second State: its _data
    t_object,   \* the dict object the second State holds: "t" is a dict of its
                \* own, "s" the dict object of the State under test
    lastT       \* history: the last operation that made or changed the second
                \* State, and the State under test before it

svars == <<s, max_keys, last, written>>
cvars == <<caller_context, context, acall>>
avars == <<astate, heartrate_ms, env_names, pc, cb, now, idle_start_time,
           entries, phases, observed, agent_tasks, running, called, raised,
           phase_pre, decided>>
ovars == <<env_caller_context, epc, contexts, states, eresult, completions>>
tvars == <<sync, tasks, tpc, tstarted, tdone>>
rvars == <<actions, registered, got>>
lvars == <<t, t_object, lastT>>
xvars == <<components, ovars, tvars, rvars, lvars>>

----------------------------------------------------------------------------
(* Bounds and input sets *)

\* no operation of the model grows a dict beyond MaxEntries entries
MaxEntries == 3

\* Optional[str] None, where a prefix is expected
None == <<"<None>">>

\* None, where a value of a State is expected (dict.get of a missing key)
NoValue == "None"

\* values stored in a State
Values == {"v1", "v2"}

\* max_keys the State under test is constructed with
MaxKeysChoices == {1, 2}

\* keys given to set_item / remove_item
Keys ==
    { <<"a">>, <<"a", "/", "b">>, <<"a", "/", "/", "b">>, <<"a", "b">>, <<"b">> }

\* prefixes given to clear / slice_by_prefix / merge (besides None)
Prefixes == { <<>>, <<"a">> }

\* State.__init__: max_keys = 50
DefaultMaxKeys == 50

\* the str "_any" of the scope cascade
ANY == <<"_", "a", "n", "y">>

\* the separator of the key segments
SEP == <<"/">>

\* the action of the cascade example: act1, owned by the entity e1
ACT1 == <<"a", "c", "t", "1">>
E1 == <<"e", "1">>

\* the keys a caller state of the cascade example may hold, with their values
CascadeEntries ==
    { [k |-> ANY \o SEP \o <<"x">>, v |-> "1"],
      [k |-> ANY \o SEP \o ACT1 \o SEP \o <<"x">>, v |-> "2"],
      [k |-> E1 \o SEP \o ANY \o SEP \o <<"x">>, v |-> "3"],
      [k |-> E1 \o SEP \o ACT1 \o SEP \o <<"x">>, v |-> "4"],
      [k |-> <<"e", "2">> \o SEP \o ACT1 \o SEP \o <<"x">>, v |-> "5"],
      [k |-> ANY \o SEP \o <<"y">>, v |-> "6"] }

\* the heartbeats whose entry the history entries keeps: the last
\* MaxHeartbeats ones
MaxHeartbeats == 4

\* the clock stops at MaxTime
MaxTime == 2

\* Agent(idle_timeout=...), in the clock's unit
IdleTimeout == 1

\* Agent(heartrate_ms=...): 0 is the synchronous mode, the default the cooperative
HeartrateDefault == 1000
HeartrateChoices == {0, HeartrateDefault}

\* the agent components (their on_heartbeat callbacks)
AgentComponents == {1, 2}

\* SharedStateKeys
AGENT_MODE == <<"a", "g", "e", "n", "t", "/", "m", "o", "d", "e">>
AGENT_THOUGHTS == <<"a", "g", "e", "n", "t", "/", "t", "h", "o", "u", "g", "h", "t", "s">>
AGENT_ACTION == <<"a", "g", "e", "n", "t", "/", "a", "c", "t", "i", "o", "n", "/", "n", "a", "m", "e">>
AGENT_ACTION_RESULT == <<"a", "g", "e", "n", "t", "/", "a", "c", "t", "i", "o", "n", "/", "r", "e", "s", "u", "l", "t">>
AGENT_ACTION_ARGS == <<"a", "g", "e", "n", "t", "/", "a", "c", "t", "i", "o", "n", "/", "a", "r", "g", "s">>

\* Agent.AGENT_MODE_*
AGENT_MODE_OBSERVING == "observing"
AGENT_MODE_THINKING == "thinking"
AGENT_MODE_ACTING == "acting"
AGENT_MODE_IDLE == "idle"

\* the actions the policy chooses from: the agent's own idle action, and an
\* action of a component
IDLE_ACTION == "action:idle"
OTHER_ACTION == "action:act1"
PolicyActions == {IDLE_ACTION, OTHER_ACTION}
PolicyArguments == {"args:1", "args:2"}
PolicyThoughts == {"thoughts:1"}
ActionResults == {"result:1"}
IDLE_RESULT == "result:idle"

\* names of environment components: "c", and one named like the agent's own
\* namespace
C_NAME == <<"c">>
AGENT_NAME == <<"a", "g", "e", "n", "t">>
EnvChoices == { <<C_NAME>>, <<C_NAME, AGENT_NAME>> }

\* a State of DefaultMaxKeys keys: k, kk, kkk, ...
BigState ==
    [ i \in 1..DefaultMaxKeys |-> [k |-> [j \in 1..i |-> "k"], v |-> "v1"] ]

\* the States a component's observe may return
ComponentStates(name) ==
    IF name = C_NAME
    THEN { <<>>,
           << [k |-> <<"k">>, v |-> "v1"] >>,
           << [k |-> <<"k">>, v |-> "v2"], [k |-> <<"j">>, v |-> "v1"] >>,
           BigState }
    ELSE { <<>>, << [k |-> <<"z">>, v |-> "v1"] >> }

----------------------------------------------------------------------------
(* str helpers *)

\* str.startswith
StartsWith(key, prefix) ==
    /\ Len(prefix) <= Len(key)
    /\ SubSeq(key, 1, Len(prefix)) = prefix

\* str.lstrip('/'): every leading '/' is removed
RECURSIVE LStrip(_)
LStrip(str) ==
    IF str # <<>> /\ Head(str) = "/" THEN LStrip(Tail(str)) ELSE str

\* key[len(prefix):]
DropPrefix(key, prefix) == SubSeq(key, Len(prefix) + 1, Len(key))

----------------------------------------------------------------------------
(* dict helpers *)

DictKeys(d) == { d[i].k : i \in 1..Len(d) }

\* key in d
HasKey(d, key) == \E i \in 1..Len(d) : d[i].k = key

\* d.get(key): the value, or None
DictGet(d, key) ==
    IF HasKey(d, key)
    THEN (CHOOSE e \in { d[i] : i \in 1..Len(d) } : e.k = key).v
    ELSE NoValue

\* d[key] = value: an existing key keeps its position, a new key is appended
DictSet(d, key, value) ==
    IF HasKey(d, key)
    THEN [ i \in 1..Len(d) |-> IF d[i].k = key THEN [k |-> key, v |-> value] ELSE d[i] ]
    ELSE Append(d, [k |-> key, v |-> value])

\* d.pop(key, None)
DictPop(d, key) == SelectSeq(d, LAMBDA e : e.k # key)

----------------------------------------------------------------------------
(* State (state.py).  An operation that can raise returns [ok, data]:      *)
(* ok = FALSE is the Exception of set_item, data the dict it leaves.       *)

\* State.merge: the key written for a key of other
MergeKey(key, key_prefix) ==
    IF key_prefix # None /\ key_prefix # <<>> THEN key_prefix \o key ELSE key

\* State.merge, the items of other as the loop writes them: the key
\* rewritten, the value as it is
MergeItems(other, key_prefix) ==
    [ i \in 1..Len(other) |->
        [k |-> MergeKey(other[i].k, key_prefix), v |-> other[i].v] ]

\* a merge that keeps the value of a key already present (dict.setdefault)
MergeKeepExisting(d, other, key_prefix) ==
    d \o SelectSeq(MergeItems(other, key_prefix), LAMBDA e : ~HasKey(d, e.k))

\* State.merge: self._data[key] = value for every item of other, in order.
\* The dict the loop leaves is given directly: a key already in self._data
\* keeps its position and takes the value of the item that writes it, the
\* other keys follow in the order of other.  (The keys of other are
\* pairwise different and so are the rewritten keys: no key is written
\* twice by one merge.)
Merge(d, other, key_prefix) ==
    LET items == MergeItems(other, key_prefix) IN
    [ i \in 1..Len(d) |->
        IF HasKey(items, d[i].k) THEN [k |-> d[i].k, v |-> DictGet(items, d[i].k)]
        ELSE d[i] ]
    \o SelectSeq(items, LAMBDA e : ~HasKey(d, e.k))

\* a clear that matches whole path segments only
ClearSegments(d, prefix) ==
    IF prefix = None THEN <<>>
    ELSE SelectSeq(d, LAMBDA e : ~(e.k = prefix \/ StartsWith(e.k, prefix \o <<"/">>)))

\* State.clear
Clear(d, prefix) ==
    IF prefix = None THEN <<>>
    ELSE SelectSeq(d, LAMBDA e : ~StartsWith(e.k, prefix))

\* a set_item whose capacity test is off by one
SetItemOffByOne(d, mk, key, value) ==
    IF ~HasKey(d, key) /\ Len(d) > mk
    THEN [ok |-> FALSE, data |-> d]
    ELSE [ok |-> TRUE, data |-> DictSet(d, key, value)]

\* State.set_item
SetItem(d, mk, key, value) ==
    IF ~HasKey(d, key) /\ Len(d) >= mk
    THEN [ok |-> FALSE, data |-> d]
    ELSE [ok |-> TRUE, data |-> DictSet(d, key, value)]

\* State.set_nested_item: data is a dict whose entries are
\* [k, leaf, v]; leaf = FALSE is isinstance(value, dict), v then a dict.
\* A set_item that raises ends the walk; the items set before it stay.
RECURSIVE Nest(_, _, _, _)
Nest(d, mk, prefix, data) ==
    IF data = <<>> THEN [ok |-> TRUE, data |-> d]
    ELSE LET e == Head(data)
             key == prefix \o <<"/">> \o e.k
             r == IF e.leaf THEN SetItem(d, mk, key, e.v)
                  ELSE Nest(d, mk, key, e.v)
         IN  IF r.ok THEN Nest(r.data, mk, prefix, Tail(data)) ELSE r

\* a slice key that drops one separator only
SliceKeyOneSeparator(key, prefix) ==
    IF key # prefix
    THEN LET rest == DropPrefix(key, prefix) IN
         IF rest # <<>> /\ Head(rest) = "/" THEN Tail(rest) ELSE rest
    ELSE key

\* State.slice_by_prefix: the key a matching key is stored under
SliceKey(key, prefix) ==
    IF key # prefix THEN LStrip(DropPrefix(key, prefix)) ELSE key

\* State.slice_by_prefix: the loop over self._data.items(), filling a
\* fresh State(self._max_keys) with set_item; after[i] is that State after
\* the i-th item, a set_item that raises ends the call
SliceFrom(acc, rest, mk, prefix) ==
    LET after[i \in 0..Len(rest)] ==
            IF i = 0 THEN [ok |-> TRUE, data |-> acc]
            ELSE LET r == after[i - 1] IN
                 IF ~r.ok THEN r
                 ELSE IF StartsWith(rest[i].k, prefix)
                 THEN LET w == SetItem(r.data, mk, SliceKey(rest[i].k, prefix), rest[i].v) IN
                      IF w.ok THEN w ELSE [ok |-> FALSE, data |-> <<>>]
                 ELSE r
    IN  after[Len(rest)]

SliceByPrefix(d, mk, prefix) == SliceFrom(<<>>, d, mk, prefix)

----------------------------------------------------------------------------
(* Action.call (action.py): the scope cascade *)

\* context = slice(p1); context.merge(slice(p2), None); ... in this order;
\* a slice that raises makes the whole call raise
ScopeCascade(cc, mk, p1, p2, p3, p4) ==
    LET c1 == SliceByPrefix(cc, mk, p1)
        c2 == SliceByPrefix(cc, mk, p2)
        c3 == SliceByPrefix(cc, mk, p3)
        c4 == SliceByPrefix(cc, mk, p4)
    IN  IF c1.ok /\ c2.ok /\ c3.ok /\ c4.ok
        THEN [ok |-> TRUE,
              data |-> Merge(Merge(Merge(c1.data, c2.data, None), c3.data, None),
                             c4.data, None)]
        ELSE [ok |-> FALSE, data |-> <<>>]

\* a cascade merged in the opposite order: the most general scope last
ActionContextGeneralLast(cc, mk, entity_name, name) ==
    ScopeCascade(cc, mk,
                 entity_name \o SEP \o name,
                 entity_name \o SEP \o ANY,
                 ANY \o SEP \o name,
                 ANY)

\* Action.call: the context built from caller_context for the action name
\* of the entity entity_name
ActionContext(cc, mk, entity_name, name) ==
    ScopeCascade(cc, mk,
                 ANY,
                 ANY \o SEP \o name,
                 entity_name \o SEP \o ANY,
                 entity_name \o SEP \o name)

----------------------------------------------------------------------------
(* Inputs of the State operations *)

\* the States given to merge as other
OtherStates ==
    { <<>>,
      << [k |-> <<"b">>, v |-> "v1"] >>,
      << [k |-> <<"/", "b">>, v |-> "v2"] >>,
      << [k |-> <<"b">>, v |-> "v2"], [k |-> <<"/", "b">>, v |-> "v1"] >>,
      << [k |-> <<"/", "b">>, v |-> "v1"], [k |-> <<"b">>, v |-> "v1"] >> }

\* the nested dicts given to set_nested_item: {"b": 1} and {"": {"b": 2}, "b": 1}
NestedInputs ==
    { << [k |-> <<"b">>, leaf |-> TRUE, v |-> "v1"] >>,
      << [k |-> <<>>, leaf |-> FALSE,
          v |-> << [k |-> <<"b">>, leaf |-> TRUE, v |-> "v2"] >>],
         [k |-> <<"b">>, leaf |-> TRUE, v |-> "v1"] >> }

\* the dict as a mapping, without its order
AsMap(d) == [ key \in DictKeys(d) |-> DictGet(d, key) ]

NoOp ==
    [op |-> "init", key |-> <<>>, val |-> NoValue, prefix |-> None, other |-> <<>>,
     pre |-> <<>>, ok |-> TRUE, res |-> <<>>]

----------------------------------------------------------------------------
(* The State under test, driven by any sequence of its operations *)

SetItemOp(key, value) ==
    LET r == SetItem(s, max_keys, key, value) IN
    /\ s' = r.data
    /\ last' = [NoOp EXCEPT !.op = "set_item", !.key = key, !.val = value,
                            !.pre = s, !.ok = r.ok]
    /\ written' = IF r.ok
                  THEN [ x \in DOMAIN written \cup {key} |->
                           IF x = key THEN value ELSE written[x] ]
                  ELSE written
    /\ UNCHANGED <<max_keys, cvars, avars, xvars>>

MergeOp(other, key_prefix) ==
    LET target(x) == IF key_prefix = None THEN x ELSE key_prefix \o x
        touched == { target(other[i].k) : i \in 1..Len(other) }
    IN
    /\ Len(s) + Len(other) <= MaxEntries
    /\ s' = Merge(s, other, key_prefix)
    /\ last' = [NoOp EXCEPT !.op = "merge", !.prefix = key_prefix,
                            !.other = other, !.pre = s]
    /\ written' = [ x \in DOMAIN written \cup touched |->
                      IF x \in touched
                      THEN (CHOOSE e \in { other[i] : i \in 1..Len(other) } :
                                target(e.k) = x).v
                      ELSE written[x] ]
    /\ UNCHANGED <<max_keys, cvars, avars, xvars>>

ClearOp(prefix) ==
    /\ s' = Clear(s, prefix)
    /\ last' = [NoOp EXCEPT !.op = "clear", !.prefix = prefix, !.pre = s]
    /\ written' = AsMap(s')
    /\ UNCHANGED <<max_keys, cvars, avars, xvars>>

RemoveItemOp(key) ==
    /\ s' = DictPop(s, key)
    /\ last' = [NoOp EXCEPT !.op = "remove_item", !.key = key, !.pre = s]
    /\ written' = AsMap(s')
    /\ UNCHANGED <<max_keys, cvars, avars, xvars>>

SetNestedItemOp(prefix, data) ==
    LET r == Nest(s, max_keys, prefix, data) IN
    /\ Len(r.data) <= MaxEntries
    /\ s' = r.data
    /\ last' = [NoOp EXCEPT !.op = "set_nested_item", !.prefix = prefix,
                            !.pre = s, !.ok = r.ok]
    /\ written' = AsMap(s')
    /\ UNCHANGED <<max_keys, cvars, avars, xvars>>

SliceOp(prefix) ==
    LET r == SliceByPrefix(s, max_keys, prefix) IN
    /\ last' = [NoOp EXCEPT !.op = "slice_by_prefix", !.prefix = prefix,
                            !.pre = s, !.ok = r.ok, !.res = r.data]
    /\ UNCHANGED <<s, max_keys, written, cvars, avars, xvars>>

StateInit ==
    /\ s = <<>>
    /\ max_keys \in MaxKeysChoices
    /\ last = NoOp
    /\ written = << >>

\* the State under test while another part of the program is exercised
StateQuiet ==
    /\ s = <<>>
    /\ max_keys = DefaultMaxKeys
    /\ last = NoOp
    /\ written = << >>

StateNext ==
    \/ \E key \in Keys, value \in Values : SetItemOp(key, value)
    \/ \E other \in OtherStates, key_prefix \in Prefixes \cup {None} :
          MergeOp(other, key_prefix)
    \/ \E prefix \in Prefixes \cup {None} : ClearOp(prefix)
    \/ \E key \in Keys : RemoveItemOp(key)
    \/ \E data \in NestedInputs : SetNestedItemOp(<<"a">>, data)
    \/ \E prefix \in Prefixes : SliceOp(prefix)

----------------------------------------------------------------------------
(* One Action.call of the action act1 of the entity e1 *)

\* the sequences without repetition over the set S
RECURSIVE Arrangements(_)
Arrangements(S) ==
    { <<>> } \cup UNION { { <<e>> \o rest : rest \in Arrangements(S \ {e}) } : e \in S }

NoContext == [ok |-> TRUE, data |-> <<>>]

ActionInit ==
    /\ caller_context \in Arrangements(CascadeEntries)
    /\ context = NoContext
    /\ acall = "ready"

ActionQuiet ==
    /\ caller_context = <<>>
    /\ context = NoContext
    /\ acall = "ready"

\* Action.call up to the call of the wrapped function
Call ==
    /\ acall = "ready"
    /\ context' = ActionContext(caller_context, DefaultMaxKeys, E1, ACT1)
    /\ acall' = "returned"
    /\ UNCHANGED <<caller_context, svars, avars, xvars>>

----------------------------------------------------------------------------
(* Environment.observe (environment.py): one call, its loop suspended at   *)
(* the await of each component's observe in turn                           *)

\* the strs of the prefixes of Environment.observe
DOT == <<".">>
OBSERVE == <<"o", "b", "s", "e", "r", "v", "e">>
ENVIRONMENT_COMPONENTS == <<"e", "n", "v", "i", "r", "o", "n", "m", "e", "n", "t", ".", "c", "o", "m", "p", "o", "n", "e", "n", "t", "s", ".">>

\* a second component name
D_NAME == <<"d">>

\* the lists of components an Environment is constructed with
ComponentLists == { <<C_NAME>>, <<C_NAME, D_NAME>>, <<D_NAME, C_NAME>> }

\* the keys the caller_context of observe may hold, with their values
ObserveEntries ==
    { [k |-> ANY \o SEP \o <<"x">>, v |-> "1"],
      [k |-> ANY \o SEP \o OBSERVE \o SEP \o <<"x">>, v |-> "2"],
      [k |-> <<"e", "n", "v", "i", "r", "o", "n", "m", "e", "n", "t", "/", "c", "o", "m", "p", "o", "n", "e", "n", "t", "s">> \o SEP \o C_NAME \o SEP \o ANY \o SEP \o <<"x">>, v |-> "3"],
      [k |-> <<"e", "n", "v", "i", "r", "o", "n", "m", "e", "n", "t", "/", "c", "o", "m", "p", "o", "n", "e", "n", "t", "s">> \o SEP \o C_NAME \o SEP \o OBSERVE \o SEP \o <<"x">>, v |-> "4"],
      [k |-> ENVIRONMENT_COMPONENTS \o C_NAME \o DOT \o OBSERVE \o SEP \o <<"x">>, v |-> "5"] }

\* the States the observe of a component may return
ObservedStates(name) ==
    IF name = C_NAME
    THEN { << [k |-> <<"o">>, v |-> "c1"] >>, << [k |-> <<"o">>, v |-> "c2"] >> }
    ELSE { <<>>, << [k |-> <<"o">>, v |-> "d1"] >> }

\* Environment.observe: the context built for the component name
ObserveContext(cc, mk, name) ==
    ScopeCascade(cc, mk,
                 ANY,
                 ANY \o DOT \o OBSERVE,
                 ENVIRONMENT_COMPONENTS \o name \o DOT \o ANY,
                 ENVIRONMENT_COMPONENTS \o name \o DOT \o OBSERVE)

\* a result that pairs the names with the states in reverse
ObserveResultReversed(names, sts) ==
    [ i \in 1..Len(names) |-> [name |-> names[i], state |-> sts[Len(sts) + 1 - i]] ]

\* Environment.observe: zip(self._components, states), with the names
ObserveResult(names, sts) ==
    [ i \in 1..Len(names) |-> [name |-> names[i], state |-> sts[i]] ]

\* Environment.observe from the i-th iteration of its loop to its next
\* await, to its return or to the exception of a slice
ObserveFrom(i, sts) ==
    IF i > Len(components)
    THEN /\ epc' = Len(components) + 1
         /\ eresult' = ObserveResult(components, sts)
         /\ contexts' = contexts
    ELSE LET c == ObserveContext(env_caller_context, DefaultMaxKeys, components[i]) IN
         IF c.ok
         THEN /\ epc' = i
              /\ contexts' = Append(contexts, c.data)
              /\ eresult' = eresult
         ELSE /\ epc' = -1
              /\ UNCHANGED <<contexts, eresult>>

ObserveInit ==
    /\ components \in ComponentLists
    /\ env_caller_context \in Arrangements(ObserveEntries)
    /\ epc = 0
    /\ contexts = <<>>
    /\ states = <<>>
    /\ eresult = <<>>
    /\ completions = <<>>

ObserveQuiet ==
    /\ components = <<>>
    /\ env_caller_context = <<>>
    /\ epc = 0
    /\ contexts = <<>>
    /\ states = <<>>
    /\ eresult = <<>>
    /\ completions = <<>>

\* environment.observe(caller_context) is called
ObserveCall ==
    /\ epc = 0
    /\ ObserveFrom(1, states)
    /\ UNCHANGED <<components, env_caller_context, states, completions,
                   svars, cvars, avars, tvars, rvars, lvars>>

\* the observe of the awaited component returns state
ComponentObserveReturn(state) ==
    /\ epc \in 1..Len(components)
    /\ state \in ObservedStates(components[epc])
    /\ states' = Append(states, state)
    /\ completions' = Append(completions, [component |-> epc, state |-> state])
    /\ ObserveFrom(epc + 1, states')
    /\ UNCHANGED <<components, env_caller_context, svars, cvars, avars, tvars, rvars, lvars>>

\* the observe of the awaited component raises
ComponentObserveRaise ==
    /\ epc \in 1..Len(components)
    /\ epc' = -1
    /\ UNCHANGED <<components, env_caller_context, contexts, states, eresult,
                   completions, svars, cvars, avars, tvars, rvars, lvars>>

ObserveNext ==
    \/ ObserveCall
    \/ \E state \in ObservedStates(C_NAME) \cup ObservedStates(D_NAME) :
          ComponentObserveReturn(state)
    \/ ComponentObserveRaise

----------------------------------------------------------------------------
(* Environment.start (environment.py): the tasks it creates.  A task runs  *)
(* from one await to the next without interruption.                        *)

\* tick calls started per component in one run of the model
MaxTicks == 2

\* a third component name
E_NAME == <<"e">>

\* the lists of components of the Environment whose tasks are started
TickLists == { <<C_NAME, D_NAME>>, <<C_NAME, D_NAME, E_NAME>> }

\* a loop that sleeps after every tick
NextTickNone(task, k) == 0

\* the component ticked after the tick of component k returned in task, 0
\* when the task goes on to sleep(0): the for loop of start_all_components,
\* the single tick of start_component
NextTick(task, k) ==
    IF task = 0 /\ k < Len(components) THEN k + 1 ELSE 0

\* the component a task ticks first in a pass of its while loop
FirstTick(task) == IF task = 0 THEN 1 ELSE task

\* the task awaits component.tick() of component k
AwaitTick(task, k) ==
    /\ tpc' = [tpc EXCEPT ![task] = k]
    /\ tstarted' = [tstarted EXCEPT ![k] = @ + 1]

TickInit ==
    /\ components \in TickLists
    /\ sync = FALSE
    /\ tasks = {}
    /\ tpc = [task \in 0..Len(components) |-> -2]
    /\ tstarted = [k \in 1..Len(components) |-> 0]
    /\ tdone = [k \in 1..Len(components) |-> 0]
    /\ env_caller_context = <<>>
    /\ epc = 0
    /\ contexts = <<>>
    /\ states = <<>>
    /\ eresult = <<>>
    /\ completions = <<>>

TickQuiet ==
    /\ sync = FALSE
    /\ tasks = {}
    /\ tpc = <<>>
    /\ tstarted = <<>>
    /\ tdone = <<>>

\* Environment.start(sync)
EnvironmentStart(sy) ==
    /\ tasks = {}
    /\ sync' = sy
    /\ tasks' = IF sy THEN {0} ELSE 1..Len(components)
    /\ tpc' = [task \in 0..Len(components) |-> IF task \in tasks' THEN 0 ELSE -2]
    /\ UNCHANGED <<components, tstarted, tdone, ovars, svars, cvars, avars, rvars, lvars>>

\* a created task runs for the first time, up to the await of its first tick
TaskRun(task) ==
    /\ task \in tasks
    /\ tpc[task] = 0
    /\ AwaitTick(task, FirstTick(task))
    /\ UNCHANGED <<components, sync, tasks, tdone, ovars, svars, cvars, avars, rvars, lvars>>

\* the tick awaited by task returns
TickReturn(task) ==
    /\ task \in tasks
    /\ tpc[task] \in 1..Len(components)
    /\ LET k == tpc[task] IN
       /\ tdone' = [tdone EXCEPT ![k] = @ + 1]
       /\ IF NextTick(task, k) # 0
          THEN AwaitTick(task, NextTick(task, k))
          ELSE /\ tpc' = [tpc EXCEPT ![task] = Len(components) + 1]
               /\ UNCHANGED tstarted
    /\ UNCHANGED <<components, sync, tasks, ovars, svars, cvars, avars, rvars, lvars>>

\* the tick awaited by task raises: the exception ends the task
TickRaise(task) ==
    /\ task \in tasks
    /\ tpc[task] \in 1..Len(components)
    /\ tpc' = [tpc EXCEPT ![task] = -1]
    /\ UNCHANGED <<components, sync, tasks, tstarted, tdone, ovars, svars,
                   cvars, avars, rvars, lvars>>

\* sleep(0) returns: the next pass of the while loop
SleepReturn(task) ==
    /\ task \in tasks
    /\ tpc[task] = Len(components) + 1
    /\ tstarted[FirstTick(task)] < MaxTicks
    /\ AwaitTick(task, FirstTick(task))
    /\ UNCHANGED <<components, sync, tasks, tdone, ovars, svars, cvars, avars, rvars, lvars>>

TickNext ==
    \/ \E sy \in BOOLEAN : EnvironmentStart(sy)
    \/ \E task \in 0..Len(components) : TaskRun(task)
    \/ \E task \in 0..Len(components) : TickReturn(task)
    \/ \E task \in 0..Len(components) : TickRaise(task)
    \/ \E task \in 0..Len(components) : SleepReturn(task)

----------------------------------------------------------------------------
(* ActionSpace (action_space.py).  An action is [name, id]: name is what   *)
(* action.name() returns, id tells apart the actions of one name.          *)

\* actions given to register_actions in one run of the model
MaxRegistered == 4

ActionNames == { "n1", "n2", "n3" }

\* the actions that exist
ActionObjects == { [name |-> n, id |-> i] : n \in ActionNames, i \in {1, 2} }

\* the lists given to register_actions
ActionLists ==
    { <<>> } \cup { <<a>> : a \in ActionObjects }
             \cup { <<a, b>> : a \in ActionObjects, b \in ActionObjects }

NoAction == [name |-> "", id |-> 0]

\* a registration that moves a name registered again to the end
RECURSIVE RegisterActionsMoveToEnd(_, _)
RegisterActionsMoveToEnd(d, list) ==
    IF list = <<>> THEN d
    ELSE RegisterActionsMoveToEnd(
             Append(DictPop(d, Head(list).name), [k |-> Head(list).name, v |-> Head(list)]),
             Tail(list))

\* ActionSpace.register_actions: self._actions[action.name()] = action for
\* every action of the list, in order
RECURSIVE RegisterActions(_, _)
RegisterActions(d, list) ==
    IF list = <<>> THEN d
    ELSE RegisterActions(DictSet(d, Head(list).name, Head(list)), Tail(list))

\* ActionSpace.get_action: ok = FALSE is the failed assert
GetAction(d, name) ==
    IF HasKey(d, name)
    THEN [ok |-> TRUE, action |-> (CHOOSE e \in { d[i] : i \in 1..Len(d) } : e.k = name).v]
    ELSE [ok |-> FALSE, action |-> NoAction]

\* ActionSpace.all_actions: list(self._actions.values())
AllActions(d) == [ i \in 1..Len(d) |-> d[i].v ]

NoGet == [name |-> "", ok |-> TRUE, action |-> NoAction]

SpaceInit ==
    /\ actions = <<>>
    /\ registered = <<>>
    /\ got = NoGet

SpaceQuiet ==
    /\ actions = <<>>
    /\ registered = <<>>
    /\ got = NoGet

RegisterActionsOp(list) ==
    /\ Len(registered) + Len(list) <= MaxRegistered
    /\ actions' = RegisterActions(actions, list)
    /\ registered' = registered \o list
    /\ UNCHANGED <<got, components, ovars, tvars, svars, cvars, avars, lvars>>

GetActionOp(name) ==
    /\ got' = [name |-> name, ok |-> GetAction(actions, name).ok,
               action |-> GetAction(actions, name).action]
    /\ UNCHANGED <<actions, registered, components, ovars, tvars, svars, cvars, avars,
                   lvars>>

SpaceNext ==
    \/ \E list \in ActionLists : RegisterActionsOp(list)
    \/ \E name \in ActionNames : GetActionOp(name)

----------------------------------------------------------------------------
(* A State and the States made from it.  Python objects have identity: the *)
(* second State holds either a dict of its own or the very dict of the     *)
(* State under test, and then every write to one is a write to the other.  *)

\* the States the State under test starts as
SliceSources ==
    { << [k |-> <<"a">>, v |-> "v1"], [k |-> <<"a", "/", "b">>, v |-> "v2"] >>,
      << [k |-> <<"b">>, v |-> "v1"] >>,
      << [k |-> ANY \o SEP \o <<"x">>, v |-> "1"],
         [k |-> E1 \o SEP \o ACT1 \o SEP \o <<"x">>, v |-> "4"] >>,
      << [k |-> ANY \o SEP \o <<"x">>, v |-> "1"],
         [k |-> ENVIRONMENT_COMPONENTS \o C_NAME \o DOT \o OBSERVE \o SEP \o <<"x">>,
          v |-> "5"] >> }

\* the keys given to set_item / remove_item of the second State
SecondKeys == { <<"a">>, <<"x">> }

NoSecond == [op |-> "none", pre |-> <<>>]

\* a slice_by_prefix that fills and returns the State it is called on
SliceObjectSelf == "s"

\* State.slice_by_prefix: state = State(self._max_keys), an object of its own
SliceObject == "t"

\* the second State, holding the dict object obj, becomes data by the
\* operation op
Second(op, obj, data) ==
    /\ t' = data
    /\ t_object' = obj
    /\ s' = IF obj = "s" THEN data ELSE s
    /\ lastT' = [op |-> op, pre |-> s]

SliceInit ==
    /\ s \in SliceSources
    /\ max_keys = DefaultMaxKeys
    /\ last = NoOp
    /\ written = << >>
    /\ t = <<>>
    /\ t_object = "t"
    /\ lastT = NoSecond

SliceQuiet ==
    /\ t = <<>>
    /\ t_object = "t"
    /\ lastT = NoSecond

\* t = s.slice_by_prefix(prefix)
SliceToSecond(prefix) ==
    LET r == SliceByPrefix(s, max_keys, prefix) IN
    /\ r.ok
    /\ Second("slice_by_prefix", SliceObject, r.data)
    /\ UNCHANGED <<max_keys, last, written, cvars, avars, components, ovars, tvars,
                   rvars>>

\* Action.call with s as caller_context: t is the context handed on
CallToSecond ==
    LET r == ActionContext(s, max_keys, E1, ACT1) IN
    /\ r.ok
    /\ Second("call", SliceObject, r.data)
    /\ UNCHANGED <<max_keys, last, written, cvars, avars, components, ovars, tvars,
                   rvars>>

\* Environment.observe with s as caller_context: t is the context handed to
\* the component c
ObserveToSecond ==
    LET r == ObserveContext(s, max_keys, C_NAME) IN
    /\ r.ok
    /\ Second("observe", SliceObject, r.data)
    /\ UNCHANGED <<max_keys, last, written, cvars, avars, components, ovars, tvars,
                   rvars>>

\* s.merge(t, key_prefix): t is the source of a merge
MergeFromSecond(key_prefix) ==
    /\ t_object = "t"
    /\ lastT.op # "none"
    /\ Len(s) + Len(t) <= MaxEntries
    /\ s' = Merge(s, t, key_prefix)
    /\ lastT' = [op |-> "merge_from", pre |-> s']
    /\ UNCHANGED <<t, t_object, max_keys, last, written, cvars, avars, components,
                   ovars, tvars, rvars>>

\* t.set_item(key, value)
SecondSetItem(key, value) ==
    /\ lastT.op # "none"
    /\ Len(t) < MaxEntries - 1
    /\ Second("set_item", t_object, SetItem(t, max_keys, key, value).data)
    /\ UNCHANGED <<max_keys, last, written, cvars, avars, components, ovars,
                   tvars, rvars>>

\* t.remove_item(key)
SecondRemoveItem(key) ==
    /\ lastT.op # "none"
    /\ Second("remove_item", t_object, DictPop(t, key))
    /\ UNCHANGED <<max_keys, last, written, cvars, avars, components, ovars,
                   tvars, rvars>>

\* t.clear(prefix)
SecondClear(prefix) ==
    /\ lastT.op # "none"
    /\ Second("clear", t_object, Clear(t, prefix))
    /\ UNCHANGED <<max_keys, last, written, cvars, avars, components, ovars,
                   tvars, rvars>>

\* t.merge(other, key_prefix)
SecondMerge(other, key_prefix) ==
    /\ lastT.op # "none"
    /\ Len(t) + Len(other) <= MaxEntries - 1
    /\ Second("merge", t_object, Merge(t, other, key_prefix))
    /\ UNCHANGED <<max_keys, last, written, cvars, avars, components, ovars,
                   tvars, rvars>>

SliceNext ==
    \/ \E prefix \in Prefixes \cup {ANY} : SliceToSecond(prefix)
    \/ CallToSecond
    \/ ObserveToSecond
    \/ \E key_prefix \in {None, <<"a">>} : MergeFromSecond(key_prefix)
    \/ \E key \in SecondKeys : SecondSetItem(key, "v2")
    \/ \E key \in SecondKeys : SecondRemoveItem(key)
    \/ \E prefix \in {None, <<"a">>} : SecondClear(prefix)
    \/ \E other \in OtherStates, key_prefix \in {None} : SecondMerge(other, key_prefix)

----------------------------------------------------------------------------
(* Agent (agent.py).  The agent reaches its collaborators through their    *)
(* protocols (protocols.py): what environment.observe, policy.action, the  *)
(* call of a chosen action and on_heartbeat return, or that they raise, is *)
(* an input.  The call of the idle action runs Agent.idle, which has no    *)
(* await.  The task of start() runs from one await to the next without     *)
(* interruption; each action below is one such run.  The agent's State is  *)
(* the State(50) of WithStateMixin; the initial state is the one __init__  *)
(* leaves when it sets the mode (agent.py:37).                             *)

\* Agent._mode, the getter
Mode(st) == DictGet(st, AGENT_MODE)

\* Agent._mode, the setter
SetMode(st, value) == SetItem(st, DefaultMaxKeys, AGENT_MODE, value)

\* set_item calls one after the other; the first that raises ends them
RECURSIVE SetItems(_, _)
SetItems(st, items) ==
    IF items = <<>> THEN [ok |-> TRUE, data |-> st]
    ELSE LET r == SetItem(st, DefaultMaxKeys, Head(items).k, Head(items).v) IN
         IF r.ok THEN SetItems(r.data, Tail(items)) ELSE r

\* Agent.observe: prefix = f"{component_name}/"
ObservePrefix(component_name) == component_name \o SEP

\* Agent.observe: the loop over the pairs the environment returned
RECURSIVE ObserveLoop(_, _)
ObserveLoop(st, observation) ==
    IF observation = <<>> THEN st
    ELSE LET prefix == ObservePrefix(Head(observation).name) IN
         ObserveLoop(Merge(Clear(st, prefix), Head(observation).state, prefix),
                     Tail(observation))

\* Agent.observe, from the return of environment.observe
Observe(st, observation) ==
    SetMode(ObserveLoop(st, observation), AGENT_MODE_THINKING)

\* Agent.think, from the return of policy.action
Think(st, action, arguments, thoughts) ==
    SetItems(st, << [k |-> AGENT_MODE, v |-> AGENT_MODE_ACTING],
                    [k |-> AGENT_ACTION, v |-> action],
                    [k |-> AGENT_ACTION_ARGS, v |-> arguments],
                    [k |-> AGENT_THOUGHTS, v |-> thoughts] >>)

\* Agent.act, from the return of action.call
ActFinish(st, result) ==
    LET r == SetItem(st, DefaultMaxKeys, AGENT_ACTION_RESULT, result) IN
    IF ~r.ok THEN r
    ELSE IF Mode(r.data) # AGENT_MODE_IDLE
         THEN SetMode(r.data, AGENT_MODE_OBSERVING)
         ELSE r

\* an idle that never ends the idling
IdleForever(st, start) ==
    IF Mode(st) # AGENT_MODE_IDLE
    THEN LET r == SetMode(st, AGENT_MODE_IDLE) IN
         [ok |-> r.ok, data |-> r.data, start |-> IF r.ok THEN now ELSE start]
    ELSE [ok |-> TRUE, data |-> st, start |-> start]

\* Agent.idle; start is _idle_start_time
Idle(st, start) ==
    IF Mode(st) # AGENT_MODE_IDLE
    THEN LET r == SetMode(st, AGENT_MODE_IDLE) IN
         [ok |-> r.ok, data |-> r.data, start |-> IF r.ok THEN now ELSE start]
    ELSE IF now - start > IdleTimeout
         THEN LET r == SetMode(st, AGENT_MODE_OBSERVING) IN
              [ok |-> r.ok, data |-> r.data, start |-> start]
         ELSE [ok |-> TRUE, data |-> st, start |-> start]

\* Agent.heartbeat: the mode tested by the i-th branch of the chain
ModeAt(i) ==
    << AGENT_MODE_OBSERVING, AGENT_MODE_THINKING, AGENT_MODE_ACTING,
       AGENT_MODE_IDLE >>[i]

\* every phase runs in one heartbeat whatever the heartrate
AfterPhaseAlways(i) == i + 1

\* one phase per heartbeat whatever the heartrate
AfterPhaseNever(i) == 5

\* Agent.heartbeat: the branch tested after the phase of branch i: the next
\* if of the synchronous chain, none (5) in the elif chain
AfterPhase(i) == IF heartrate_ms = 0 THEN i + 1 ELSE 5

\* Agent.heartbeat from branch i of the chain to the next await, to the
\* return ("sleep") or to an exception ("dead"); ph are the phases started
RECURSIVE RunFrom(_, _, _, _)
RunFrom(i, st, start, ph) ==
    IF i > 4 THEN [pc |-> "sleep", data |-> st, start |-> start, ph |-> ph]
    ELSE IF Mode(st) # ModeAt(i) THEN RunFrom(i + 1, st, start, ph)
    ELSE IF i = 1
    THEN [pc |-> "observe", data |-> st, start |-> start, ph |-> Append(ph, "observe")]
    ELSE IF i = 2
    THEN [pc |-> "think", data |-> st, start |-> start, ph |-> Append(ph, "think")]
    ELSE IF i = 3
    THEN LET action == DictGet(st, AGENT_ACTION)
             arguments == DictGet(st, AGENT_ACTION_ARGS)
             ph3 == Append(ph, "act")
         IN  IF action = NoValue \/ arguments = NoValue
             THEN [pc |-> "dead", data |-> st, start |-> start, ph |-> ph3]
             ELSE IF action = IDLE_ACTION
             THEN LET r == Idle(st, start)
                      f == ActFinish(r.data, IDLE_RESULT)
                  IN  IF ~r.ok
                      THEN [pc |-> "dead", data |-> r.data, start |-> r.start, ph |-> ph3]
                      ELSE IF ~f.ok
                      THEN [pc |-> "dead", data |-> f.data, start |-> r.start, ph |-> ph3]
                      ELSE RunFrom(AfterPhase(3), f.data, r.start, ph3)
             ELSE [pc |-> "act", data |-> st, start |-> start, ph |-> ph3]
    ELSE LET r == Idle(st, start)
             ph4 == Append(ph, "idle")
         IN  IF ~r.ok
             THEN [pc |-> "dead", data |-> r.data, start |-> r.start, ph |-> ph4]
             ELSE RunFrom(AfterPhase(4), r.data, r.start, ph4)

\* Agent.act: the call it makes of the action recorded in st, with the
\* recorded arguments as keyword arguments; caller_context is the list of the
\* States passed as caller_context: none
ActCall(st) ==
    [action |-> DictGet(st, AGENT_ACTION),
     kwargs |-> DictGet(st, AGENT_ACTION_ARGS),
     caller_context |-> <<>>]

NoCall == [action |-> NoValue, kwargs |-> NoValue, caller_context |-> <<>>]

\* the phases r.ph adds to the phases started before
NewPhases(r) == { r.ph[i] : i \in (Len(phases) + 1)..Len(r.ph) }

\* the start() task runs on to r: to the await of a phase, to the return of
\* heartbeat ("sleep") or to an exception of the agent's own statements
Resume(r) ==
    /\ pc' = r.pc
    /\ astate' = r.data
    /\ idle_start_time' = r.start
    /\ phases' = r.ph
    /\ running' = IF r.pc \in {"sleep", "dead"} THEN running - 1 ELSE running
    /\ raised' = IF r.pc = "dead" THEN "internal" ELSE raised
    /\ phase_pre' = IF r.pc \in {"observe", "think", "act"} THEN r.data ELSE phase_pre
    /\ called' = IF "act" \in NewPhases(r) /\ ActCall(r.data).action # NoValue
                        /\ ActCall(r.data).kwargs # NoValue
                  THEN ActCall(r.data)
                  ELSE called

\* a phase returned p = [ok, data]: the chain goes on after branch i, or the
\* exception of a set_item ends the task
AfterBody(p, i) ==
    IF p.ok THEN Resume(RunFrom(AfterPhase(i), p.data, idle_start_time, phases))
    ELSE Resume([pc |-> "dead", data |-> p.data, start |-> idle_start_time,
                 ph |-> phases])

\* gather returns with the first callback that completed
GatherDoneFirst == \E c \in AgentComponents : cb[c] = "done"

\* aio.gather(*callbacks) returns when every callback has completed
GatherDone == \A c \in AgentComponents : cb[c] = "done"

\* the lists of (name, State) pairs environment.observe may return
RECURSIVE Observations(_)
Observations(names) ==
    IF names = <<>> THEN { <<>> }
    ELSE { <<[name |-> Head(names), state |-> st]>> \o rest :
             st \in ComponentStates(Head(names)), rest \in Observations(Tail(names)) }

NoDecision == [action |-> NoValue, arguments |-> NoValue]

AgentInit ==
    /\ astate = << [k |-> AGENT_MODE, v |-> AGENT_MODE_OBSERVING] >>
    /\ heartrate_ms \in HeartrateChoices
    /\ env_names \in EnvChoices
    /\ pc = "new"
    /\ cb = [c \in AgentComponents |-> "none"]
    /\ now = 0
    /\ idle_start_time = 0
    /\ entries = <<>>
    /\ phases = <<>>
    /\ observed = <<>>
    /\ agent_tasks = {}
    /\ running = 0
    /\ called = NoCall
    /\ raised = "none"
    /\ phase_pre = <<>>
    /\ decided = NoDecision

AgentQuiet ==
    /\ astate = << [k |-> AGENT_MODE, v |-> AGENT_MODE_OBSERVING] >>
    /\ heartrate_ms = HeartrateDefault
    /\ env_names = <<>>
    /\ pc = "new"
    /\ cb = [c \in AgentComponents |-> "none"]
    /\ now = 0
    /\ idle_start_time = 0
    /\ entries = <<>>
    /\ phases = <<>>
    /\ observed = <<>>
    /\ agent_tasks = {}
    /\ running = 0
    /\ called = NoCall
    /\ raised = "none"
    /\ phase_pre = <<>>
    /\ decided = NoDecision

\* Agent.start: the tasks it creates
StartTasks == { [task |-> "start_task", component |-> 0] }

\* Agent.start
AgentStart ==
    /\ pc = "new"
    /\ pc' = "sleep"
    /\ agent_tasks' = StartTasks
    /\ UNCHANGED <<astate, heartrate_ms, env_names, cb, now, idle_start_time,
                   entries, phases, observed, running, called, raised,
                   phase_pre, decided, svars, cvars, xvars>>

\* a start_task that begins a heartbeat whatever the previous one is doing
StartTaskReadyAlways == pc # "new" /\ pc # "dead"

\* start_task: heartbeat() is awaited before sleep and before the next pass
\* of the loop, so a heartbeat begins only when the task is at its sleep
StartTaskReady == pc = "sleep"

\* start_task: await self.heartbeat(), up to the await of gather
HeartbeatStart ==
    /\ StartTaskReady
    /\ running' = running + 1
    /\ phase_pre' = astate
    /\ pc' = "gather"
    /\ cb' = [c \in AgentComponents |-> "pending"]
    /\ entries' = Append(IF Len(entries) < MaxHeartbeats THEN entries
                          ELSE Tail(entries),
                          [mode |-> Mode(astate),
                                   action |-> DictGet(astate, AGENT_ACTION)])
    /\ phases' = <<>>
    /\ UNCHANGED <<astate, heartrate_ms, env_names, now, idle_start_time,
                   observed, agent_tasks, called, raised, decided,
                   svars, cvars, xvars>>

\* component.on_heartbeat(self.state) completes
CallbackReturn(c) ==
    /\ cb[c] = "pending"
    /\ cb' = [cb EXCEPT ![c] = "done"]
    /\ UNCHANGED <<astate, heartrate_ms, env_names, pc, now, idle_start_time,
                   entries, phases, observed, agent_tasks, running, called,
                   raised, phase_pre, decided, svars, cvars, xvars>>

\* component.on_heartbeat(self.state) raises
CallbackRaise(c) ==
    /\ cb[c] = "pending"
    /\ cb' = [cb EXCEPT ![c] = "raised"]
    /\ UNCHANGED <<astate, heartrate_ms, env_names, pc, now, idle_start_time,
                   entries, phases, observed, agent_tasks, running, called,
                   raised, phase_pre, decided, svars, cvars, xvars>>

\* gather returns: the chain of heartbeat runs from its first branch
GatherReturn ==
    /\ pc = "gather"
    /\ GatherDone
    /\ Resume(RunFrom(1, astate, idle_start_time, phases))
    /\ UNCHANGED <<heartrate_ms, env_names, cb, now, entries, observed,
                   agent_tasks, decided, svars, cvars, xvars>>

\* gather raises the exception of a callback: heartbeat and start_task end
GatherRaise ==
    /\ pc = "gather"
    /\ \E c \in AgentComponents : cb[c] = "raised"
    /\ pc' = "dead"
    /\ raised' = "callback"
    /\ running' = running - 1
    /\ UNCHANGED <<astate, heartrate_ms, env_names, cb, now, idle_start_time,
                   entries, phases, observed, agent_tasks, called, phase_pre,
                   decided, svars, cvars, xvars>>

\* environment.observe returns observation
ObserveReturn(observation) ==
    /\ pc = "observe"
    /\ AfterBody(Observe(astate, observation), 1)
    /\ observed' = observation
    /\ UNCHANGED <<heartrate_ms, env_names, cb, now, entries, agent_tasks,
                   decided, svars, cvars, xvars>>

\* policy.action returns (action, arguments, thoughts)
ThinkReturn(action, arguments, thoughts) ==
    /\ pc = "think"
    /\ AfterBody(Think(astate, action, arguments, thoughts), 2)
    /\ decided' = [action |-> action, arguments |-> arguments]
    /\ UNCHANGED <<heartrate_ms, env_names, cb, now, entries, observed,
                   agent_tasks, svars, cvars, xvars>>

\* the call of the chosen action returns result
ActReturn(result) ==
    /\ pc = "act"
    /\ AfterBody(ActFinish(astate, result), 3)
    /\ UNCHANGED <<heartrate_ms, env_names, cb, now, entries, observed,
                   agent_tasks, decided, svars, cvars, xvars>>

\* a start_task that catches the exception of a phase and goes on to its
\* sleep
PhaseRaiseCaught ==
    /\ pc \in {"observe", "think", "act"}
    /\ pc' = "sleep"
    /\ raised' = pc
    /\ running' = running - 1
    /\ UNCHANGED <<astate, heartrate_ms, env_names, cb, now, idle_start_time,
                   entries, phases, observed, agent_tasks, called, phase_pre,
                   decided, svars, cvars, xvars>>

\* environment.observe, policy.action or the action raises: the exception
\* leaves heartbeat and ends start_task
PhaseRaise ==
    /\ pc \in {"observe", "think", "act"}
    /\ pc' = "dead"
    /\ raised' = pc
    /\ running' = running - 1
    /\ UNCHANGED <<astate, heartrate_ms, env_names, cb, now, idle_start_time,
                   entries, phases, observed, agent_tasks, called, phase_pre,
                   decided, svars, cvars, xvars>>

\* time passes.  Only differences of times are ever read, and only against
\* IdleTimeout: times are kept in a window that ends at MaxTime, and once
\* now is at MaxTime a tick moves the recorded start of the idling back by
\* one instead, as long as the difference can still matter
Tick ==
    /\ IF now < MaxTime
       THEN now' = now + 1 /\ idle_start_time' = idle_start_time
       ELSE /\ now' = now
            /\ idle_start_time' = IF now - idle_start_time <= IdleTimeout
                                  THEN idle_start_time - 1
                                  ELSE idle_start_time
    /\ UNCHANGED <<astate, heartrate_ms, env_names, pc, cb,
                   entries, phases, observed, agent_tasks, running, called,
                   raised, phase_pre, decided, svars, cvars, xvars>>

AgentNext ==
    \/ AgentStart
    \/ HeartbeatStart
    \/ \E c \in AgentComponents : CallbackReturn(c)
    \/ \E c \in AgentComponents : CallbackRaise(c)
    \/ GatherReturn
    \/ GatherRaise
    \/ \E observation \in Observations(env_names) : ObserveReturn(observation)
    \/ \E action \in PolicyActions, arguments \in PolicyArguments,
          thoughts \in PolicyThoughts : ThinkReturn(action, arguments, thoughts)
    \/ \E result \in ActionResults : ActReturn(result)
    \/ PhaseRaise
    \/ Tick

\* a step of the start() task or of what it awaits
TaskStep ==
    \/ AgentStart
    \/ HeartbeatStart
    \/ \E c \in AgentComponents : CallbackReturn(c)
    \/ \E c \in AgentComponents : CallbackRaise(c)
    \/ GatherReturn
    \/ GatherRaise
    \/ \E observation \in Observations(env_names) : ObserveReturn(observation)
    \/ \E action \in PolicyActions, arguments \in PolicyArguments,
          thoughts \in PolicyThoughts : ThinkReturn(action, arguments, thoughts)
    \/ \E result \in ActionResults : ActReturn(result)
    \/ PhaseRaise

----------------------------------------------------------------------------
(* Specifications *)

vars == <<s, max_keys, last, written, caller_context, context, acall,
          astate, heartrate_ms, env_names, pc, cb, now, idle_start_time,
          entries, phases, observed, agent_tasks, running, called, raised,
          phase_pre, decided, components, env_caller_context, epc,
          contexts, states, eresult, completions, sync, tasks, tpc, tstarted,
          tdone, actions, registered, got, t, t_object, lastT>>

ActionNext == Call

\* the State under test, driven by any sequence of its operations
InitState == StateInit /\ ActionQuiet /\ AgentQuiet /\ ObserveQuiet /\ TickQuiet /\ SpaceQuiet /\ SliceQuiet

SpecState == InitState /\ [][StateNext]_vars

\* one Action.call
InitAction == StateQuiet /\ ActionInit /\ AgentQuiet /\ ObserveQuiet /\ TickQuiet /\ SpaceQuiet /\ SliceQuiet

SpecAction == InitAction /\ [][ActionNext]_vars

\* the agent, driven by the task of Agent.start
Init == StateQuiet /\ ActionQuiet /\ AgentInit /\ ObserveQuiet /\ TickQuiet /\ SpaceQuiet /\ SliceQuiet

Spec == Init /\ [][AgentNext]_vars

\* a step of the start() task or of what it awaits is possible exactly as
\* long as no exception has ended the task
TaskEnabled == pc # "dead"

\* weak fairness of TaskStep, WF_vars(TaskStep), with ENABLED <<TaskStep>>_vars
\* written out as TaskEnabled
FairTask == []<>(~TaskEnabled) \/ []<><<TaskStep>>_vars

\* the agent under a fair event loop: the start() task runs whenever it can,
\* what it awaits completes (by a return or by an exception), and time goes on
SpecLive == Init /\ [][AgentNext]_vars /\ FairTask /\ WF_vars(Tick)

\* one Environment.observe call
InitObserve == StateQuiet /\ ActionQuiet /\ AgentQuiet /\ ObserveInit /\ TickQuiet /\ SpaceQuiet /\ SliceQuiet

SpecObserve == InitObserve /\ [][ObserveNext]_vars

\* the tasks of one Environment.start
InitTick == StateQuiet /\ ActionQuiet /\ AgentQuiet /\ TickInit /\ SpaceQuiet /\ SliceQuiet

SpecTick == InitTick /\ [][TickNext]_vars

\* one ActionSpace, driven by any sequence of its operations
InitSpace ==
    StateQuiet /\ ActionQuiet /\ AgentQuiet /\ ObserveQuiet /\ TickQuiet /\ SpaceInit
    /\ SliceQuiet

SpecSpace == InitSpace /\ [][SpaceNext]_vars

\* a State and a second State made from it by slice_by_prefix, Action.call or
\* Environment.observe
InitSlice ==
    SliceInit /\ ActionQuiet /\ AgentQuiet /\ ObserveQuiet /\ TickQuiet /\ SpaceQuiet

SpecSlice == InitSlice /\ [][SliceNext]_vars

----------------------------------------------------------------------------
(* Properties of State *)

\* key = prefix + something
HasPrefix(key, prefix) ==
    \E n \in 0..Len(key) : key = prefix \o SubSeq(key, n + 1, Len(key))

\* the part of key after prefix
AfterPrefix(key, prefix) ==
    [ i \in 1..(Len(key) - Len(prefix)) |-> key[i + Len(prefix)] ]

\* str with its first character dropped when that is '/'
WithoutOneSeparator(str) ==
    IF Len(str) > 0 /\ str[1] = "/" THEN [ i \in 1..(Len(str) - 1) |-> str[i + 1] ]
    ELSE str

\* str with all its leading '/' dropped
WithoutSeparators(str) ==
    LET n == CHOOSE m \in 0..Len(str) :
                 /\ \A i \in 1..m : str[i] = "/"
                 /\ (m = Len(str) \/ str[m + 1] # "/")
    IN  [ i \in 1..(Len(str) - n) |-> str[i + n] ]

\* the position of key in d
PosOf(d, key) == CHOOSE i \in 1..Len(d) : d[i].k = key

\* C5: set_item on a key already present never fails; on a key not present
\* it fails exactly when the state already holds max_keys or more keys; a
\* failed set_item leaves the state unchanged.
C5_SetItemCapacity ==
    last.op = "set_item" =>
        /\ (last.key \in DictKeys(last.pre) => last.ok)
        /\ (last.key \notin DictKeys(last.pre) =>
               (~last.ok <=> Cardinality(DictKeys(last.pre)) >= max_keys))
        /\ (~last.ok => s = last.pre)
        /\ (last.ok => /\ DictGet(s, last.key) = last.val
                       /\ \A x \in DictKeys(last.pre) \ {last.key} :
                            DictGet(s, x) = DictGet(last.pre, x))

\* C5 witness: a set_item on a new key failed on a full state, and one on a
\* present key of a state above max_keys is also reachable.
C5_Witness ==
    /\ last.op = "set_item"
    /\ ~last.ok
    /\ last.key \notin DictKeys(last.pre)
    /\ Len(last.pre) = max_keys

\* C6 (as claimed): whenever a set_item has just succeeded, the state holds
\* at most max_keys keys.
C6_CapacityInvariant ==
    (last.op = "set_item" /\ last.ok) => Cardinality(DictKeys(s)) <= max_keys

\* C7: the value of each key is the value written by the last merge or
\* set_item that touched the (prefix-rewritten) key; untouched keys keep theirs.
C7_MergePriority ==
    /\ DictKeys(s) = DOMAIN written
    /\ \A x \in DictKeys(s) : DictGet(s, x) = written[x]

\* C7 witness: a merge under a prefix overwrote the value of a present key
C7_Witness ==
    /\ last.op = "merge"
    /\ last.prefix = <<"a">>
    /\ \E x \in DictKeys(last.pre) :
          /\ DictGet(s, x) # DictGet(last.pre, x)
          /\ \E i \in 1..Len(last.other) : x = <<"a">> \o last.other[i].k

\* C8 (as claimed): the slice holds exactly the keys of s starting with p,
\* each with p and one following '/' removed, each with its own value.
C8_SliceStripsOneSeparator ==
    last.op = "slice_by_prefix" =>
        LET sel == { x \in DictKeys(last.pre) : HasPrefix(x, last.prefix) }
            new(x) == WithoutOneSeparator(AfterPrefix(x, last.prefix))
        IN  /\ last.ok
            /\ DictKeys(last.res) = { new(x) : x \in sel }
            /\ \A x \in sel : DictGet(last.res, new(x)) = DictGet(last.pre, x)

\* C8 (amended): the slice selects exactly the keys of s starting with p; a
\* key equal to p is kept as it is, any other has p and all following '/'
\* removed; a rewritten key holds the value of the last selected key, in
\* insertion order, rewritten to it; the call raises the capacity error
\* exactly when more than max_keys distinct rewritten keys result.
C8_SliceByPrefix ==
    last.op = "slice_by_prefix" =>
        LET sel == { x \in DictKeys(last.pre) : HasPrefix(x, last.prefix) }
            new(x) == IF x = last.prefix THEN x
                      ELSE WithoutSeparators(AfterPrefix(x, last.prefix))
            winner(y) == CHOOSE x \in sel :
                            /\ new(x) = y
                            /\ \A z \in sel : new(z) = y =>
                                  PosOf(last.pre, z) <= PosOf(last.pre, x)
        IN  /\ last.ok <=> Cardinality({ new(x) : x \in sel }) <= max_keys
            /\ last.ok =>
                  /\ DictKeys(last.res) = { new(x) : x \in sel }
                  /\ \A y \in DictKeys(last.res) :
                        DictGet(last.res, y) = DictGet(last.pre, winner(y))
            /\ s = last.pre

\* C8 witness: a slice by "a" of a state holding the key "a" itself and a key
\* with two separators after the prefix
C8_Witness ==
    /\ last.op = "slice_by_prefix"
    /\ last.prefix = <<"a">>
    /\ last.ok
    /\ {<<"a">>, <<"a", "/", "/", "b">>} \subseteq DictKeys(last.pre)

\* C9: clear(p) removes exactly the keys slice_by_prefix(p) would select
\* (those starting with p) and leaves every other key and its value as they
\* were; clear() without a prefix empties the state.
C9_ClearFrame ==
    last.op = "clear" =>
        IF last.prefix = None THEN s = <<>>
        ELSE /\ DictKeys(s) \subseteq DictKeys(last.pre)
             /\ \A x \in DictKeys(last.pre) :
                   /\ x \notin DictKeys(s) <=> HasPrefix(x, last.prefix)
                   /\ x \notin DictKeys(s) <=>
                        SliceByPrefix(<<[k |-> x, v |-> "v1"]>>, 1, last.prefix).data # <<>>
                   /\ x \in DictKeys(s) => DictGet(s, x) = DictGet(last.pre, x)

\* C9 witness: clear("a") removed a key and kept another
C9_Witness ==
    /\ last.op = "clear"
    /\ last.prefix = <<"a">>
    /\ <<"a", "b">> \in DictKeys(last.pre)
    /\ s # <<>>
    /\ Len(s) < Len(last.pre)

----------------------------------------------------------------------------
(* Properties of Action.call *)

CascadeKey(scope) == scope \o SEP \o <<"x">>

\* C4: the context handed to the wrapped function maps x to the value under
\* e1/act1/x; with that key absent to the value under e1/_any/x, then
\* _any/act1/x, then _any/x; with none of the four present x is absent.
C4_ScopeCascade ==
    acall = "returned" =>
        LET has(scope) == CascadeKey(scope) \in DictKeys(caller_context)
            val(scope) == DictGet(caller_context, CascadeKey(scope))
            x == DictGet(context.data, <<"x">>)
        IN  /\ context.ok
            /\ IF has(E1 \o SEP \o ACT1) THEN x = val(E1 \o SEP \o ACT1)
               ELSE IF has(E1 \o SEP \o ANY) THEN x = val(E1 \o SEP \o ANY)
               ELSE IF has(ANY \o SEP \o ACT1) THEN x = val(ANY \o SEP \o ACT1)
               ELSE IF has(ANY) THEN x = val(ANY)
               ELSE <<"x">> \notin DictKeys(context.data)

\* C4 witness: a call with e1/act1/x absent and the three other keys present
\* has returned, the general keys inserted last
C4_Witness ==
    /\ acall = "returned"
    /\ CascadeKey(E1 \o SEP \o ACT1) \notin DictKeys(caller_context)
    /\ Len(caller_context) = 3
    /\ caller_context[1].k = CascadeKey(E1 \o SEP \o ANY)
    /\ caller_context[2].k = CascadeKey(ANY \o SEP \o ACT1)
    /\ caller_context[3].k = CascadeKey(ANY)
    /\ DictGet(context.data, <<"x">>) = "3"

----------------------------------------------------------------------------
(* Properties of the Agent *)

\* the phase that belongs to a mode
PhaseOf(mode) ==
    CASE mode = "observing" -> "observe"
      [] mode = "thinking" -> "think"
      [] mode = "acting" -> "act"
      [] mode = "idle" -> "idle"
      [] OTHER -> "none"

\* a heartbeat has returned and none has started since
Returned == pc = "sleep" /\ entries # <<>>

\* C1: in cooperative mode a heartbeat runs exactly one phase, the one of
\* the mode at its entry; heartbeats entered in Observing are followed by
\* heartbeats entered in Thinking, then Acting, then Observing again when the
\* action chosen is not the idle action.
C1_CooperativeOnePhase ==
    heartrate_ms > 0 =>
        /\ phases # <<>> => phases = << PhaseOf(entries[Len(entries)].mode) >>
        /\ Returned => Len(phases) = 1
        /\ \A i \in 1..Len(entries) :
              entries[i].mode = "observing" =>
                /\ i + 1 <= Len(entries) => entries[i + 1].mode = "thinking"
                /\ i + 2 <= Len(entries) => entries[i + 2].mode = "acting"
                /\ (i + 3 <= Len(entries) /\ entries[i + 2].action # IDLE_ACTION)
                      => entries[i + 3].mode = "observing"

\* C1 witness: four cooperative heartbeats were entered in Observing,
\* Thinking, Acting, Observing and the fourth has returned
C1_Witness ==
    /\ heartrate_ms > 0
    /\ Returned
    /\ Len(entries) = 4
    /\ entries[1].mode = "observing"
    /\ entries[2].mode = "thinking"
    /\ entries[3].mode = "acting"
    /\ entries[3].action = OTHER_ACTION
    /\ entries[4].mode = "observing"
    /\ phases = << "observe" >>

\* C2: in synchronous mode a heartbeat entered in Observing runs observe,
\* think and act in this order within the one call, no phase twice, and
\* returns in mode Observing unless the chosen action was the idle action.
C2_SynchronousFullCycle ==
    heartrate_ms = 0 =>
        /\ \A i, j \in 1..Len(phases) : phases[i] = phases[j] => i = j
        /\ (Returned /\ entries[Len(entries)].mode = "observing") =>
              /\ Len(phases) >= 3
              /\ SubSeq(phases, 1, 3) = << "observe", "think", "act" >>
              /\ DictGet(astate, AGENT_ACTION) # IDLE_ACTION =>
                    /\ phases = << "observe", "think", "act" >>
                    /\ DictGet(astate, AGENT_MODE) = "observing"

\* C2 witness: a second synchronous heartbeat ran observe, think, act and
\* returned in mode Observing
C2_Witness ==
    /\ heartrate_ms = 0
    /\ Returned
    /\ Len(entries) = 2
    /\ entries[2].mode = "observing"
    /\ phases = << "observe", "think", "act" >>
    /\ DictGet(astate, AGENT_MODE) = "observing"
    /\ DictGet(astate, AGENT_ACTION_RESULT) \in ActionResults

\* C3: while a phase of a heartbeat runs or has run, no on_heartbeat callback
\* of that heartbeat is pending: all have completed.
C3_HeartbeatBarrier ==
    (phases # <<>> \/ pc \in {"observe", "think", "act"}) =>
        \A c \in AgentComponents : cb[c] = "done"

\* C3 witness: the third heartbeat awaits the chosen action, its callbacks done
C3_Witness ==
    /\ pc = "act"
    /\ Len(entries) = 3
    /\ \A c \in AgentComponents : cb[c] = "done"

\* observe() has just completed: nothing has written the agent's state since
JustObserved ==
    \/ pc = "sleep" /\ phases = << "observe" >>
    \/ pc = "think" /\ phases = << "observe", "think" >>

\* the prefix the specification gives the keys of an observed component
ENV_COMPONENTS == <<"e", "n", "v", "i", "r", "o", "n", "m", "e", "n", "t", "/", "c", "o", "m", "p", "o", "n", "e", "n", "t", "s", "/">>

\* C10 (as claimed): after observe() the keys under
\* environment/components/{name}/ are exactly the keys of the component's
\* State under that prefix, with its values, and the mode is Thinking.
C10_ObserveFullReplace ==
    JustObserved =>
        /\ DictGet(astate, AGENT_MODE) = "thinking"
        /\ \A n \in 1..Len(observed) :
              LET prefix == ENV_COMPONENTS \o observed[n].name \o SEP
                  under == { x \in DictKeys(astate) : HasPrefix(x, prefix) }
              IN  /\ under = { prefix \o x : x \in DictKeys(observed[n].state) }
                  /\ \A x \in DictKeys(observed[n].state) :
                        DictGet(astate, prefix \o x) = DictGet(observed[n].state, x)

----------------------------------------------------------------------------
(* Properties of Environment.observe *)

\* the state the observe call of the i-th component completed with
CompletedState(i) ==
    (CHOOSE e \in { completions[j] : j \in 1..Len(completions) } : e.component = i).state

\* C11: a returned observe holds one pair per component, in list order, the
\* i-th pair made of the i-th component's name and of the State the observe
\* call of that same component returned.
C11_ObservePairs ==
    epc = Len(components) + 1 =>
        /\ Len(eresult) = Len(components)
        /\ \A i \in 1..Len(components) :
              /\ eresult[i].name = components[i]
              /\ \E j \in 1..Len(completions) : completions[j].component = i
              /\ eresult[i].state = CompletedState(i)
              /\ eresult[i].state \in ObservedStates(components[i])

\* C11 witness: observe returned for the components d, c with two different
\* States
C11_Witness ==
    /\ components = <<D_NAME, C_NAME>>
    /\ epc = 3
    /\ eresult[1].state = << [k |-> <<"o">>, v |-> "d1"] >>
    /\ eresult[2].state = << [k |-> <<"o">>, v |-> "c2"] >>

\* the caller key of a scope of the component c, in the separator '/'
ObserveKey(scope) == scope \o SEP \o <<"x">>

\* C12 (as claimed): the context handed to the component c maps x to the
\* value under environment/components/c/observe/x; with that key absent to
\* the value under environment/components/c/_any/x, then _any/observe/x,
\* then _any/x.
C12_ObserveCascade ==
    \A i \in 1..Len(contexts) :
        components[i] = C_NAME =>
            LET entity == SubSeq(ENV_COMPONENTS, 1, Len(ENV_COMPONENTS) - 1)
                             \o SEP \o C_NAME
                has(scope) == ObserveKey(scope) \in DictKeys(env_caller_context)
                val(scope) == DictGet(env_caller_context, ObserveKey(scope))
                x == DictGet(contexts[i], <<"x">>)
            IN  IF has(entity \o SEP \o OBSERVE) THEN x = val(entity \o SEP \o OBSERVE)
                ELSE IF has(entity \o SEP \o ANY) THEN x = val(entity \o SEP \o ANY)
                ELSE IF has(ANY \o SEP \o OBSERVE) THEN x = val(ANY \o SEP \o OBSERVE)
                ELSE IF has(ANY) THEN x = val(ANY)
                ELSE TRUE

----------------------------------------------------------------------------
(* Properties of Environment.start *)

\* C13: with sync = True the completed ticks of two components differ by at
\* most one, a component starts its tick of a cycle only after the component
\* before it finished its tick of that cycle, and no component starts a
\* second tick before every other component has completed one more tick
\* than it had.
C13_RoundRobin ==
    (sync /\ tasks # {}) =>
        /\ \A i, j \in 1..Len(components) :
              /\ tdone[i] - tdone[j] <= 1
              /\ tstarted[i] <= tdone[j] + 1
        /\ \A i \in 1..(Len(components) - 1) : tstarted[i + 1] <= tdone[i]
        /\ \A i, j \in 1..Len(components) : i < j => tdone[j] <= tdone[i]

\* C13 witness: three components ticked in sync, the third awaited in the
\* second cycle
C13_Witness ==
    /\ sync
    /\ Len(components) = 3
    /\ tpc[0] = 3
    /\ tdone = <<2, 2, 1>>

----------------------------------------------------------------------------
(* Properties of the Agent: its tasks, the call made by act, exceptions *)

\* C14 (as claimed): the tasks start() created are the heartbeat task and one
\* tick task per agent component.
C14_ComponentTickTasks ==
    pc # "new" =>
        agent_tasks = StartTasks \cup
                      { [task |-> "tick", component |-> c] : c \in AgentComponents }

\* C15 (as claimed): the call act() awaits is the call of the recorded action
\* with the recorded arguments and with the agent's State as caller_context;
\* once act() has returned the result is recorded and the mode is Observing
\* unless the action was the idle action.
C15_ActCall ==
    /\ pc = "act" =>
          /\ called.action = DictGet(astate, AGENT_ACTION)
          /\ called.kwargs = DictGet(astate, AGENT_ACTION_ARGS)
          /\ called.caller_context = << astate >>
    /\ (Returned /\ phases # <<>> /\ phases[Len(phases)] = "act") =>
          /\ DictGet(astate, AGENT_ACTION_RESULT) \in ActionResults \cup {IDLE_RESULT}
          /\ DictGet(astate, AGENT_ACTION) # IDLE_ACTION =>
                DictGet(astate, AGENT_MODE) = "observing"

\* C16: once a heartbeat callback, environment.observe, policy.action or the
\* called action has raised, the start() task has ended with no heartbeat in
\* progress and the agent's State, its mode and reserved keys included, is
\* as it was when the failing phase began; an ended task begins no further
\* heartbeat and writes nothing.
C16_ErrorPropagation ==
    /\ [](raised \in {"callback", "observe", "think", "act"} =>
             /\ pc = "dead"
             /\ running = 0
             /\ Mode(astate) = Mode(phase_pre)
             /\ astate = phase_pre)
    /\ [][pc = "dead" => (pc' = "dead" /\ entries' = entries /\ astate' = astate)]_vars

\* C16 witness: in a synchronous heartbeat observe and think completed and the
\* called action raised: the mode is still Acting and no result is recorded
C16_Witness ==
    /\ heartrate_ms = 0
    /\ pc = "dead"
    /\ raised = "act"
    /\ phases = << "observe", "think", "act" >>
    /\ Mode(astate) = "acting"
    /\ ~HasKey(astate, AGENT_ACTION_RESULT)

\* C18: at most one heartbeat() call is in progress: one while the task
\* awaits the callbacks or a phase, none otherwise; a heartbeat begins only
\* when none is in progress.
C18_NoOverlap ==
    /\ running <= 1
    /\ pc \in {"gather", "observe", "think", "act"} => running = 1
    /\ pc \in {"new", "sleep", "dead"} => running = 0

\* C18 witness: the second heartbeat awaits policy.action
C18_Witness ==
    /\ Len(entries) = 2
    /\ pc = "think"
    /\ running = 1
    /\ phases = << "think" >>

\* C20 (as claimed): whenever no heartbeat is in progress and the mode is
\* Acting, agent/action/name and agent/action/args hold the action and the
\* arguments policy.action returned last.
C20_ActingHasAction ==
    (pc \in {"sleep", "dead"} /\ Mode(astate) = "acting") =>
        /\ DictGet(astate, AGENT_ACTION) = decided.action
        /\ DictGet(astate, AGENT_ACTION_ARGS) = decided.arguments
        /\ decided # NoDecision

----------------------------------------------------------------------------
(* Properties of ActionSpace *)

\* the position in registered of the first action named n
FirstRegistered(n) ==
    CHOOSE i \in 1..Len(registered) :
        /\ registered[i].name = n
        /\ \A j \in 1..(i - 1) : registered[j].name # n

\* the position in registered of the last action named n
LastRegistered(n) ==
    CHOOSE i \in 1..Len(registered) :
        /\ registered[i].name = n
        /\ \A j \in (i + 1)..Len(registered) : registered[j].name # n

\* C17: get_action(n) succeeds exactly for the names registered and returns
\* the action registered last under n; all_actions() lists one action per
\* registered name, the last registered of it, the names in the order of
\* their first registration.
C17_LastRegisteredWins ==
    LET names == { registered[i].name : i \in 1..Len(registered) }
        all == AllActions(actions)
    IN  /\ \A n \in ActionNames :
              /\ GetAction(actions, n).ok <=> n \in names
              /\ n \in names =>
                    GetAction(actions, n).action = registered[LastRegistered(n)]
        /\ { all[i].name : i \in 1..Len(all) } = names
        /\ Len(all) = Cardinality(names)
        /\ \A i \in 1..Len(all) : all[i] = registered[LastRegistered(all[i].name)]
        /\ \A i, j \in 1..Len(all) :
              i < j => FirstRegistered(all[i].name) < FirstRegistered(all[j].name)
        /\ got.name \in names => (got.ok => got.action.name = got.name)

\* C17 witness: n1 was registered, then n2, then n1 again with another
\* action: n1 keeps the first position and get_action(n1) returned the new one
C17_Witness ==
    /\ Len(registered) = 3
    /\ registered[1] = [name |-> "n1", id |-> 1]
    /\ registered[2].name = "n2"
    /\ registered[3] = [name |-> "n1", id |-> 2]
    /\ AllActions(actions)[1] = [name |-> "n1", id |-> 2]
    /\ got = [name |-> "n1", ok |-> TRUE, action |-> [name |-> "n1", id |-> 2]]

----------------------------------------------------------------------------
(* Properties of the States made from a State *)

\* C19: slice_by_prefix, Action.call and Environment.observe leave the State
\* they read as it was, and so does every set_item, remove_item, clear or
\* merge on the State they made, also after that State was the source of a
\* merge into the State under test.
C19_SliceAliasFree ==
    /\ t_object = "t"
    /\ lastT.op # "none" => s = lastT.pre

\* C19 witness: the State made by a slice had a key removed that the State
\* under test still holds with its value
C19_Witness ==
    /\ lastT.op = "remove_item"
    /\ s = << [k |-> <<"a">>, v |-> "v1"], [k |-> <<"a", "/", "b">>, v |-> "v2"] >>
    /\ ~HasKey(t, <<"a">>)
    /\ HasKey(t, <<"b">>)

----------------------------------------------------------------------------
(* Properties of Agent.observe and of the Idle mode *)

\* a cooperative heartbeat has run observe() and returned: phase_pre is the
\* agent's State as observe() found it
ObservedAlone == pc = "sleep" /\ phases = << "observe" >>

\* C21 (as claimed): observe() leaves the reserved keys agent/action/name,
\* agent/action/args, agent/action/result and agent/thoughts with the
\* presence and value they had, and changes only agent/mode and the keys
\* under the prefixes of the observed components.
C21_ObserveFrame ==
    ObservedAlone =>
        /\ \A key \in {AGENT_ACTION, AGENT_ACTION_ARGS, AGENT_ACTION_RESULT,
                       AGENT_THOUGHTS} :
              /\ HasKey(astate, key) <=> HasKey(phase_pre, key)
              /\ DictGet(astate, key) = DictGet(phase_pre, key)
        /\ \A key \in (DictKeys(astate) \cup DictKeys(phase_pre)) \ {AGENT_MODE} :
              (\A n \in 1..Len(observed) :
                  ~HasPrefix(key, ObservePrefix(observed[n].name)))
              => /\ HasKey(astate, key) <=> HasKey(phase_pre, key)
                 /\ DictGet(astate, key) = DictGet(phase_pre, key)

\* the time elapsed since the agent entered Idle
IdleElapsed == now - idle_start_time

====
